---- MODULE Spec2Model ----
(***************************************************************************)
(* Model of the FM24V10 I2C F-RAM driver (src/src/lib.rs).                 *)
(*                                                                         *)
(* The driver object holds the bus handle, the base slave address derived  *)
(* from the A1/A2 pins, and a caller-supplied write buffer.  Its three     *)
(* operations are read, write and capacity.  The bus transport is an       *)
(* external collaborator: it is modelled by the list of transactions the   *)
(* driver hands to it during a call and by the answer (success or a        *)
(* transport error) it gives back.                                         *)
(***************************************************************************)
EXTENDS Integers, Sequences, FiniteSets, TLC

VARIABLES
    address_pins,      \* Address(a1, a2) given to new(): <<A1, A2>>
    base_address,      \* Fm24v10.base_address
    write_buffer,      \* Fm24v10.write_buffer (0-based in the code, 1-based here)
    call,              \* the most recent call and its arguments
    result,            \* what the most recent call returned
    i2c,               \* the bus transactions issued by the most recent call
    old_write_buffer   \* write_buffer as it was when the most recent call began

vars == <<address_pins, base_address, write_buffer, call, result, i2c, old_write_buffer>>

----------------------------------------------------------------------------
(* Bounds of the model *)

\* longest `data` slice handed to write
MaxDataLen == 2
\* longest `bytes` slice handed to read
MaxReadLen == 3
\* longest write buffer handed to new()
MaxBufferLen == 4

\* u32 offsets tried: both pages, the page boundary, the capacity boundary, and
\* offsets past the capacity (2147483647 is the largest integer TLC represents)
Offsets == {0, 255, 258, 65535, 65536, 131071, 131072, 999999, 2147483647}
\* the data handed to write: the first k bytes of 0xAA, 0xBB, 0xCC, ..., and
\* the single byte 0x01
DataSlices ==
    {[i \in 1..k |-> 170 + 17 * ((i - 1) % 6)] : k \in 0..MaxDataLen} \cup {<<1>>}
\* what the transport answers to a transaction: success or an error of type E
TransportErrors == {"Nack", "ArbitrationLoss"}
TransportAnswers == {"Ok"} \cup TransportErrors

----------------------------------------------------------------------------
(* Fixed-width integer operations used by the code *)

RECURSIVE BitAnd(_, _)
BitAnd(a, b) ==
    IF a = 0 \/ b = 0 THEN 0
    ELSE (a % 2) * (b % 2) + 2 * BitAnd(a \div 2, b \div 2)

RECURSIVE BitOr(_, _)
BitOr(a, b) ==
    IF a = 0 THEN b
    ELSE IF b = 0 THEN a
    ELSE (IF a % 2 = 1 \/ b % 2 = 1 THEN 1 ELSE 0) + 2 * BitOr(a \div 2, b \div 2)

\* x << k on u8: bits shifted past bit 7 are lost
ShlU8(x, k) == (x * 2^k) % 256
\* x >> k on u32
ShrU32(x, k) == x \div 2^k
\* x as u8
AsU8(x) == x % 256

\* a - b on usize: the difference, or an overflow when b > a
UsizeSub(a, b) ==
    IF b > a THEN [overflow |-> TRUE, value |-> 0]
    ELSE [overflow |-> FALSE, value |-> a - b]

----------------------------------------------------------------------------
(* Constants of the driver *)

DEVICE_TYPE_CODE == 10
MEMORY_ADDRESS_BYTES == 2
CAPACITY_BYTES == 128 * 1024

\* impl From<Address> for u8
AddressToU8(a) ==
    BitOr(BitOr(ShlU8(DEVICE_TYPE_CODE, 3), ShlU8(a[2], 2)), ShlU8(a[1], 1))

\* Results
OkUnit == [tag |-> "Ok"]
OkValue(v) == [tag |-> "Ok", value |-> v]
OutOfBounds == [tag |-> "OutOfBounds"]
BufferTooSmall == [tag |-> "BufferTooSmall"]
Panic == [tag |-> "Panic"]

\* .map_err(Error::I2c)
MapErrI2c(e) == [tag |-> "I2c", cause |-> e]

\* bytes.is_empty() / data.is_empty()
NeverEmpty(s) == FALSE

IsEmpty(s) == Len(s) = 0

\* get_address_for_offset
AddressForOffsetBit15(base, memory_offset) ==
    IF memory_offset >= CAPACITY_BYTES THEN OutOfBounds
    ELSE LET page_select_bit == BitAnd(ShrU32(memory_offset, 15), 1)
         IN  OkValue(BitOr(base, AsU8(page_select_bit)))

get_address_for_offset(base, memory_offset) ==
    IF memory_offset >= CAPACITY_BYTES THEN OutOfBounds
    ELSE LET page_select_bit == BitAnd(ShrU32(memory_offset, 16), 1)
         IN  OkValue(BitOr(base, AsU8(page_select_bit)))

\* offset >= CAPACITY_BYTES as u32 || len > (CAPACITY_BYTES - offset as usize)
\* "in" | "out" | "panic"; || evaluates its right side only when the left is false
BoundsCheckOffByOne(offset, len) ==
    IF offset >= CAPACITY_BYTES THEN "out"
    ELSE LET d == UsizeSub(CAPACITY_BYTES, offset)
         IN  IF d.overflow THEN "panic"
             ELSE IF len >= d.value THEN "out" ELSE "in"

BoundsCheckEager(offset, len) ==
    LET d == UsizeSub(CAPACITY_BYTES, offset)
    IN  IF d.overflow THEN "panic"
        ELSE IF offset >= CAPACITY_BYTES \/ len > d.value THEN "out" ELSE "in"

BoundsCheck(offset, len) ==
    IF offset >= CAPACITY_BYTES THEN "out"
    ELSE LET d == UsizeSub(CAPACITY_BYTES, offset)
         IN  IF d.overflow THEN "panic"
             ELSE IF len > d.value THEN "out" ELSE "in"

\* [((offset >> 8) & 0xFF) as u8, (offset & 0xFF) as u8]
MemAddrLittleEndian(offset) ==
    << AsU8(BitAnd(offset, 255)), AsU8(BitAnd(ShrU32(offset, 8), 255)) >>

mem_addr_payload(offset) ==
    << AsU8(BitAnd(ShrU32(offset, 8), 255)), AsU8(BitAnd(offset, 255)) >>

\* self.write_buffer.len() < required_buffer_len
TooSmallOffByOne(buffer_len, required_buffer_len) == buffer_len <= required_buffer_len

TooSmall(buffer_len, required_buffer_len) == buffer_len < required_buffer_len

\* An outcome of a call: what it returns, the write buffer it leaves, the bus
\* transactions it issued
Outcome(r, buf, ops) == [result |-> r, write_buffer |-> buf, i2c |-> ops]

\* write_buffer[0] = ..; write_buffer[1] = ..;
\* write_buffer[MEMORY_ADDRESS_BYTES..required_buffer_len].copy_from_slice(data)
\* An index or a range outside the buffer, or a length mismatch in
\* copy_from_slice, panics.
FrameClobbersTail(buf, offset, data, required_buffer_len) ==
    IF Len(buf) < 2 \/ required_buffer_len > Len(buf)
       \/ required_buffer_len - MEMORY_ADDRESS_BYTES # Len(data)
    THEN [panic |-> TRUE, buf |-> buf]
    ELSE [panic |-> FALSE,
          buf |-> [i \in 1..Len(buf) |->
                     IF i = 1 THEN AsU8(BitAnd(ShrU32(offset, 8), 255))
                     ELSE IF i = 2 THEN AsU8(BitAnd(offset, 255))
                     ELSE IF i <= required_buffer_len THEN data[i - MEMORY_ADDRESS_BYTES]
                     ELSE 0]]

Frame(buf, offset, data, required_buffer_len) ==
    IF Len(buf) < 1 THEN [panic |-> TRUE, buf |-> buf]
    ELSE LET b0 == [buf EXCEPT ![1] = AsU8(BitAnd(ShrU32(offset, 8), 255))]
         IN  IF Len(b0) < 2 THEN [panic |-> TRUE, buf |-> b0]
             ELSE LET b1 == [b0 EXCEPT ![2] = AsU8(BitAnd(offset, 255))]
                  IN  IF MEMORY_ADDRESS_BYTES > required_buffer_len
                         \/ required_buffer_len > Len(b1)
                         \/ required_buffer_len - MEMORY_ADDRESS_BYTES # Len(data)
                      THEN [panic |-> TRUE, buf |-> b1]
                      ELSE [panic |-> FALSE,
                            buf |-> [i \in 1..Len(b1) |->
                                       IF MEMORY_ADDRESS_BYTES < i /\ i <= required_buffer_len
                                       THEN data[i - MEMORY_ADDRESS_BYTES]
                                       ELSE b1[i]]]

\* &self.write_buffer[..required_buffer_len]
WholeBuffer(buf, required_buffer_len) == buf

FramePayload(buf, required_buffer_len) == SubSeq(buf, 1, required_buffer_len)

\* Bus transactions, as the transport sees them; answer is filled in when the
\* transport answers
I2cWriteRead(address, payload, read_len) ==
    [op |-> "write_read", address |-> address, bytes |-> payload,
     read_len |-> read_len, answer |-> "pending"]
I2cWrite(address, payload) ==
    [op |-> "write", address |-> address, bytes |-> payload,
     read_len |-> 0, answer |-> "pending"]

\* self.i2c.write_read(..).await / self.i2c.write(..).await followed by
\* .map_err(Error::I2c)?; Ok(()): the transaction is issued once, and the call
\* returns Ok(()) or the transport's error wrapped, as the transport answers
TransactWithRetry(buf, op) ==
    {Outcome(OkUnit, buf, << [op EXCEPT !.answer = "Ok"] >>)}
    \cup {Outcome(IF second = "Ok" THEN OkUnit ELSE MapErrI2c(second), buf,
                  << [op EXCEPT !.answer = first], [op EXCEPT !.answer = second] >>) :
              first \in TransportErrors, second \in TransportAnswers}

Transact(buf, op) ==
    {Outcome(IF answer = "Ok" THEN OkUnit ELSE MapErrI2c(answer), buf,
             << [op EXCEPT !.answer = answer] >>) :
        answer \in TransportAnswers}

\* Fm24v10::read: the outcomes the call can have
read(buf, base, offset, bytes) ==
    IF IsEmpty(bytes) THEN {Outcome(OkUnit, buf, << >>)}
    ELSE LET bc == BoundsCheck(offset, Len(bytes)) IN
    IF bc = "panic" THEN {Outcome(Panic, buf, << >>)}
    ELSE IF bc = "out" THEN {Outcome(OutOfBounds, buf, << >>)}
    ELSE LET address == get_address_for_offset(base, offset) IN
    IF address.tag # "Ok" THEN {Outcome(address, buf, << >>)}
    ELSE Transact(buf, I2cWriteRead(address.value, mem_addr_payload(offset), Len(bytes)))

\* Fm24v10::capacity
CapacityOffByOne == OkValue(CAPACITY_BYTES - 1)

capacity == OkValue(CAPACITY_BYTES)

\* Fm24v10::write: the outcomes the call can have
write(buf, base, offset, data) ==
    IF IsEmpty(data) THEN {Outcome(OkUnit, buf, << >>)}
    ELSE LET bc == BoundsCheck(offset, Len(data)) IN
    IF bc = "panic" THEN {Outcome(Panic, buf, << >>)}
    ELSE IF bc = "out" THEN {Outcome(OutOfBounds, buf, << >>)}
    ELSE LET required_buffer_len == MEMORY_ADDRESS_BYTES + Len(data) IN
    IF TooSmall(Len(buf), required_buffer_len) THEN {Outcome(BufferTooSmall, buf, << >>)}
    ELSE LET i2c_7bit_address == get_address_for_offset(base, offset) IN
    IF i2c_7bit_address.tag # "Ok" THEN {Outcome(i2c_7bit_address, buf, << >>)}
    ELSE LET f == Frame(buf, offset, data, required_buffer_len) IN
    IF f.panic \/ required_buffer_len > Len(f.buf) THEN {Outcome(Panic, f.buf, << >>)}
    ELSE Transact(f.buf, I2cWrite(i2c_7bit_address.value,
                                  FramePayload(f.buf, required_buffer_len)))

----------------------------------------------------------------------------
(* The state machine *)

NoCall == [op |-> "new", offset |-> 0, data |-> << >>]

\* Fm24v10::new
Init ==
    /\ address_pins \in {0, 1} \X {0, 1}
    /\ base_address = AddressToU8(address_pins)
    \* the caller's buffer: any length up to the bound, every byte 0x5A
    /\ write_buffer \in {[i \in 1..k |-> 90] : k \in 0..MaxBufferLen}
    /\ call = NoCall
    /\ result = OkUnit
    /\ i2c = << >>
    /\ old_write_buffer = write_buffer

\* a call of read(offset, bytes); the bytes slice arrives holding zeroes
Read ==
    \E offset \in Offsets, n \in 0..MaxReadLen :
        \E out \in read(write_buffer, base_address, offset, [i \in 1..n |-> 0]) :
            /\ call' = [op |-> "read", offset |-> offset, data |-> [i \in 1..n |-> 0]]
            /\ result' = out.result
            /\ i2c' = out.i2c
            /\ write_buffer' = out.write_buffer
            /\ old_write_buffer' = write_buffer
            /\ UNCHANGED <<address_pins, base_address>>

\* a call of write(offset, data)
Write ==
    \E offset \in Offsets, data \in DataSlices :
        \E out \in write(write_buffer, base_address, offset, data) :
            /\ call' = [op |-> "write", offset |-> offset, data |-> data]
            /\ result' = out.result
            /\ i2c' = out.i2c
            /\ write_buffer' = out.write_buffer
            /\ old_write_buffer' = write_buffer
            /\ UNCHANGED <<address_pins, base_address>>

\* a call of capacity()
Capacity ==
    /\ call' = [op |-> "capacity", offset |-> 0, data |-> << >>]
    /\ result' = capacity
    /\ i2c' = << >>
    /\ old_write_buffer' = write_buffer
    /\ UNCHANGED <<address_pins, base_address, write_buffer>>

Next == Read \/ Write \/ Capacity

Spec == Init /\ [][Next]_vars

----------------------------------------------------------------------------
(* Properties *)

\* the arguments of the most recent call
off == call.offset
n == Len(call.data)
IsAccess == call.op \in {"read", "write"}
\* the access lies within the device
InDevice == off < 131072 /\ n <= 131072 - off
\* the slave address the device expects for the offset: page bit in bit 0
ExpectedSlave == base_address + (IF off >= 65536 THEN 1 ELSE 0)
\* the big-endian encoding of the low 16 bits of the offset
ExpectedMemAddr == << (off \div 256) % 256, off % 256 >>
NoBus == i2c = << >>
BufferKept == write_buffer = old_write_buffer
\* a write whose data fits the write buffer
Fits == Len(old_write_buffer) >= 2 + n

\* C1: a non-empty read or write returns OutOfBounds exactly when
\* offset >= 131072 or n > 131072 - offset, and then it has issued no bus
\* transaction and left the write buffer as it was, whatever the write
\* buffer's length.
C1_OutOfBoundsExactly ==
    (IsAccess /\ n > 0) =>
        /\ (result = OutOfBounds) <=> (off >= 131072 \/ n > 131072 - off)
        /\ (result = OutOfBounds) => (NoBus /\ BufferKept)

C1_Witness ==
    /\ call.op = "write" /\ off = 131071 /\ n = 2
    /\ Len(old_write_buffer) = 0
    /\ result = OutOfBounds

\* C2: a read or write of an empty slice returns success at every offset,
\* issues no bus transaction and leaves the write buffer as it was.
C2_EmptyIsNoOp ==
    (IsAccess /\ n = 0) => (result = OkUnit /\ NoBus /\ BufferKept)

C2_Witness ==
    /\ call.op = "write" /\ off = 999999 /\ n = 0
    /\ result = OkUnit /\ NoBus

\* C3: the base address is 1010:A2:A1:0 in every state, and every bus
\* transaction is addressed to base for offsets below 65536 and to base | 1 for
\* offsets in [65536, 131072).
C3_SlaveAddress ==
    /\ base_address = 80 + 4 * address_pins[2] + 2 * address_pins[1]
    /\ base_address \in {80, 82, 84, 86}
    /\ base_address % 2 = 0
    /\ \A k \in 1..Len(i2c) :
          /\ off < 131072
          /\ i2c[k].address = (IF off < 65536 THEN base_address ELSE base_address + 1)
          /\ i2c[k].address \div 2 = base_address \div 2
          /\ i2c[k].address % 2 = (off \div 65536) % 2

C3_Witness ==
    /\ address_pins = <<1, 0>> /\ base_address = 82
    /\ call.op = "read" /\ off = 65536
    /\ Len(i2c) = 1 /\ i2c[1].address = 83

\* C4: an in-device write of n > 0 bytes with a write buffer of at least 2 + n
\* bytes issues one bus write, to the slave address of the offset, whose payload
\* is the two big-endian address bytes followed by the data.
C4_WriteFrame ==
    (call.op = "write" /\ n > 0 /\ InDevice /\ Fits) =>
        /\ Len(i2c) = 1
        /\ i2c[1].op = "write"
        /\ i2c[1].address = ExpectedSlave
        /\ Len(i2c[1].bytes) = 2 + n
        /\ i2c[1].bytes = ExpectedMemAddr \o call.data

C4_Witness ==
    /\ call.op = "write" /\ off = 258 /\ call.data = <<170, 187>>
    /\ Len(i2c) = 1 /\ i2c[1].bytes = <<1, 2, 170, 187>>

\* C5: an in-device read of n > 0 bytes issues one write-then-read, to the
\* slave address of the offset, with the two big-endian address bytes as write
\* payload and a read buffer of n bytes, and leaves the write buffer as it was.
C5_ReadFrame ==
    (call.op = "read" /\ n > 0 /\ InDevice) =>
        /\ Len(i2c) = 1
        /\ i2c[1].op = "write_read"
        /\ i2c[1].address = ExpectedSlave
        /\ i2c[1].bytes = ExpectedMemAddr
        /\ i2c[1].read_len = n
        /\ BufferKept

C5_Witness ==
    /\ call.op = "read" /\ off = 255 /\ n = 3
    /\ Len(i2c) = 1 /\ i2c[1].bytes = <<0, 255>> /\ i2c[1].read_len = 3

\* C6: an in-device write of n > 0 bytes returns BufferTooSmall, with no bus
\* transaction and the write buffer as it was, when the write buffer is shorter
\* than 2 + n, and never returns BufferTooSmall otherwise.
C6_BufferTooSmall ==
    (call.op = "write" /\ n > 0 /\ InDevice) =>
        /\ ~Fits => (result = BufferTooSmall /\ NoBus /\ BufferKept)
        /\ Fits => result # BufferTooSmall

C6_Witness ==
    /\ call.op = "write" /\ off = 0 /\ call.data = <<1>>
    /\ Len(old_write_buffer) = 2
    /\ result = BufferTooSmall /\ NoBus

\* C7: a read or write that passes the empty, bounds and buffer-size checks
\* issues exactly one bus transaction, addressed by the page bit of the starting
\* offset, and returns Ok when the transport answers Ok and the I2c error
\* carrying the transport's error otherwise.
C7_OneTransaction ==
    (IsAccess /\ n > 0 /\ InDevice /\ (call.op = "write" => Fits)) =>
        /\ Len(i2c) = 1
        /\ i2c[1].address = ExpectedSlave
        /\ i2c[1].answer = "Ok" => result = OkUnit
        /\ i2c[1].answer # "Ok" =>
              /\ i2c[1].answer \in TransportErrors
              /\ result = [tag |-> "I2c", cause |-> i2c[1].answer]

C7_Witness ==
    /\ call.op = "write" /\ off = 65535 /\ n = 2
    /\ Len(i2c) = 1 /\ i2c[1].address = base_address
    /\ i2c[1].answer = "ArbitrationLoss"
    /\ result = [tag |-> "I2c", cause |-> "ArbitrationLoss"]

\* C8: a write that reaches the framing step leaves every write buffer byte
\* at index >= 2 + n as it was, whether the bus write succeeds or fails, and
\* leaves the address bytes in the first two bytes and the data after them.
C8_FrameEffect ==
    (call.op = "write" /\ n > 0 /\ InDevice /\ Fits) =>
        /\ Len(write_buffer) = Len(old_write_buffer)
        /\ \A i \in 1..Len(write_buffer) :
              i > 2 + n => write_buffer[i] = old_write_buffer[i]
        /\ SubSeq(write_buffer, 1, 2) = ExpectedMemAddr
        /\ SubSeq(write_buffer, 3, 2 + n) = call.data

C8_Witness ==
    /\ call.op = "write" /\ call.data = <<1>> /\ off = 65536
    /\ result.tag = "I2c"
    /\ old_write_buffer = <<1, 2, 170, 187>>
    /\ write_buffer = <<0, 0, 1, 187>>

\* C9: capacity() returns Ok(131072) after any sequence of calls, issues no
\* bus transaction and changes neither the base address nor the write buffer.
C9_Capacity ==
    call.op = "capacity" =>
        /\ result = [tag |-> "Ok", value |-> 131072]
        /\ NoBus
        /\ BufferKept
        /\ base_address = 80 + 4 * address_pins[2] + 2 * address_pins[1]

C9_Witness ==
    /\ call.op = "capacity"
    /\ result = [tag |-> "Ok", value |-> 131072]
    /\ Len(write_buffer) = 3 /\ write_buffer # <<90, 90, 90>>

\* C10: every call returns Ok, I2c, OutOfBounds or BufferTooSmall and never
\* panics: the subtraction 131072 - offset does not underflow, no index or range
\* of the write buffer is out of range, and a write that computes 2 + n has
\* n <= 131072.
C10_NoPanic ==
    /\ result.tag \in {"Ok", "I2c", "OutOfBounds", "BufferTooSmall"}
    /\ (call.op = "write" /\ n > 0 /\ result # OutOfBounds) => 2 + n <= 131074

C10_Witness ==
    /\ call.op = "read" /\ off = 2147483647 /\ n = 1
    /\ result = OutOfBounds

====
